---- MODULE Spec2Model ----
(***************************************************************************)
(* Model of the batch conversion / rename engine of webp-image-converter:  *)
(* convert_and_rename_images (webp_jpeg_converter.py) and its graphical    *)
(* caller run_conversion (webp_jpeg_gui.py).                               *)
(*                                                                         *)
(* File names are sequences of one-character strings, so that suffix,     *)
(* stem, startswith, int() and the 03d format are computed as pathlib and  *)
(* Python compute them.                                                    *)
(***************************************************************************)
EXTENDS Integers, Sequences, FiniteSets, TLC

VARIABLES req, dirs, fs, pc, image_files, idx, counter, converted_count,
          renamed_count, accept_all_overwrites, retries, log, trace, status

vars == <<req, dirs, fs, pc, image_files, idx, counter, converted_count,
          renamed_count, accept_all_overwrites, retries, log, trace, status>>

(* ------------------------------ bounds -------------------------------- *)

\* largest number of supported image files in the input folder
MaxFiles == 2
\* largest number of unrecognised answers typed at one overwrite prompt
MaxRetries == 1

(* ----------------------------- characters ----------------------------- *)

\* the characters of the modelled names, in code point order
Alphabet == <<"-", ".", "0", "1", "2", "3", "4", "5", "6", "7", "8", "9",
              "B", "E", "G", "N", "P", "W", "_",
              "a", "b", "d", "e", "g", "i", "j", "m", "n", "o", "p", "s",
              "t", "w", "x">>

Ord(c) == CHOOSE i \in 1..Len(Alphabet) : Alphabet[i] = c

LowerChar(c) ==
    CASE c = "B" -> "b" [] c = "E" -> "e" [] c = "G" -> "g" [] c = "N" -> "n"
      [] c = "P" -> "p" [] c = "W" -> "w" [] OTHER -> c

\* str.lower()
Lower(s) == [i \in 1..Len(s) |-> LowerChar(s[i])]

\* str.startswith(p)
StartsWith(s, p) == Len(s) >= Len(p) /\ SubSeq(s, 1, Len(p)) = p

\* s[n:]
DropFirst(s, n) == SubSeq(s, n + 1, Len(s))

\* str.rfind('.') , 0 when there is no dot
RFindDot(s) ==
    LET D == {i \in 1..Len(s) : s[i] = "."}
    IN IF D = {} THEN 0 ELSE CHOOSE i \in D : \A j \in D : j <= i

\* PurePath.suffix: the last dot and what follows it, unless that dot is
\* the first or the last character of the name
Suffix(name) ==
    LET i == RFindDot(name)
    IN IF 1 < i /\ i < Len(name) THEN SubSeq(name, i, Len(name)) ELSE <<>>

\* PurePath.stem
Stem(name) ==
    LET i == RFindDot(name)
    IN IF 1 < i /\ i < Len(name) THEN SubSeq(name, 1, i - 1) ELSE name

\* the order of str (and of Path objects of one folder) : by code point
RECURSIVE LexLess(_, _)
LexLess(a, b) ==
    IF a = <<>> THEN b # <<>>
    ELSE IF b = <<>> THEN FALSE
    ELSE IF a[1] # b[1] THEN Ord(a[1]) < Ord(b[1])
    ELSE LexLess(Tail(a), Tail(b))

\* list.sort() of a set of distinct names
RECURSIVE SortNames(_)
SortNames(S) ==
    IF S = {} THEN <<>>
    ELSE LET m == CHOOSE x \in S : \A y \in S \ {x} : LexLess(x, y)
         IN <<m>> \o SortNames(S \ {m})

(* ------------------------- int() and {:03d} --------------------------- *)

Digits == <<"0", "1", "2", "3", "4", "5", "6", "7", "8", "9">>

IsDigit(c) == \E d \in 1..10 : Digits[d] = c

DigitVal(c) == (CHOOSE d \in 1..10 : Digits[d] = c) - 1

\* value of a digit string in which single underscores may separate digits
RECURSIVE DigitsValue(_, _)
DigitsValue(s, acc) ==
    IF s = <<>> THEN acc
    ELSE IF s[1] = "_" THEN DigitsValue(Tail(s), acc)
    ELSE DigitsValue(Tail(s), 10 * acc + DigitVal(s[1]))

\* the digit part int() accepts: digits, single underscores between digits
WellFormedDigits(s) ==
    /\ Len(s) > 0
    /\ \A i \in 1..Len(s) : IsDigit(s[i]) \/ s[i] = "_"
    /\ IsDigit(s[1]) /\ IsDigit(s[Len(s)])
    /\ \A i \in 1..(Len(s) - 1) : ~(s[i] = "_" /\ s[i + 1] = "_")

\* int(s) for base 10: ok is FALSE where int() raises ValueError
IntParse(s) ==
    LET signed == Len(s) > 0 /\ s[1] \in {"+", "-"}
        body   == IF signed THEN Tail(s) ELSE s
    IN IF WellFormedDigits(body)
       THEN [ok |-> TRUE,
             val |-> IF signed /\ s[1] = "-" THEN 0 - DigitsValue(body, 0)
                     ELSE DigitsValue(body, 0)]
       ELSE [ok |-> FALSE, val |-> 0]

RECURSIVE NatDigits(_)
NatDigits(n) ==
    IF n < 10 THEN <<Digits[n + 1]>>
    ELSE NatDigits(n \div 10) \o <<Digits[(n % 10) + 1]>>

RECURSIVE Zeros(_)
Zeros(k) == IF k <= 0 THEN <<>> ELSE <<"0">> \o Zeros(k - 1)

\* f"{n:03d}": zero padded to width 3, the sign counted in the width
Format03d(n) ==
    LET d == NatDigits(IF n < 0 THEN 0 - n ELSE n)
    IN IF n < 0 THEN <<"-">> \o Zeros(2 - Len(d)) \o d
       ELSE Zeros(3 - Len(d)) \o d

(* -------------------------- names and images --------------------------- *)

PNG_EXT  == <<".", "p", "n", "g">>
JPG_EXT  == <<".", "j", "p", "g">>
WEBP_EXT == <<".", "w", "e", "b", "p">>

supported_formats ==
    {WEBP_EXT, JPG_EXT, <<".", "j", "p", "e", "g">>, PNG_EXT,
     <<".", "b", "m", "p">>, <<".", "t", "i", "f", "f">>, <<".", "t", "i", "f">>}

A_PNG     == <<"a">> \o PNG_EXT
A_WEBP    == <<"a">> \o WEBP_EXT
B_PNG     == <<"b">> \o PNG_EXT
B_WEBP_UP == <<"B", ".", "W", "E", "B", "P">>
BAD_JPG   == <<"b", "a", "d">> \o JPG_EXT
NOTES_TXT == <<"n", "o", "t", "e", "s", ".", "t", "x", "t">>
IMG       == <<"i", "m", "g">>
IMG_001_PNG == IMG \o <<"_", "0", "0", "1">> \o PNG_EXT

None == "None"

\* a directory entry: a regular file holding an image (mode "corrupt" when
\* it cannot be decoded) in encoding enc, or a sub-directory
File(mode, enc) == [kind |-> "file", mode |-> mode, enc |-> enc]
SubDir == [kind |-> "dir", mode |-> "-", enc |-> "-"]

\* the supported files an input folder may hold, with the pixel modes each
\* may have
SourceModes ==
    [x \in {A_PNG, A_WEBP, B_PNG, B_WEBP_UP, BAD_JPG, IMG_001_PNG} |->
        CASE x = A_WEBP    -> {"RGB", "RGBA"}
          [] x = B_WEBP_UP -> {"P"}
          [] x = BAD_JPG   -> {"corrupt"}
          [] OTHER         -> {"RGB"}]

SourceNames == DOMAIN SourceModes

ModeChoices(S) ==
    {m \in [S -> {"RGB", "RGBA", "P", "corrupt"}] :
        \A x \in S : m[x] \in SourceModes[x]}

\* what the input folder may hold: at most MaxFiles supported files, with
\* or without the unsupported notes.txt
InputFolders ==
    UNION { { [x \in S \cup N |->
                 IF x = NOTES_TXT THEN File("text", "ORIG")
                 ELSE File(m[x], "ORIG")]
              : m \in ModeChoices(S), N \in {{}, {NOTES_TXT}} }
            : S \in {T \in SUBSET SourceNames : Cardinality(T) <= MaxFiles} }

Numbered(k, ext) ==
    [x \in {IMG \o <<"_">> \o Format03d(i) \o ext : i \in 1..k} |->
        File("RGB", "ORIG")]

\* names int() or the suffix test rejects, next to one upper-case suffix
OddNames ==
    (IMG \o <<"_", "x">> \o PNG_EXT)           :> File("RGB", "ORIG")
    @@ (IMG \o <<"_", "0", "0", "2", ".", "P", "N", "G">>) :> File("RGB", "ORIG")
    @@ (IMG \o <<"_", "1", "_", "0">> \o JPG_EXT) :> File("RGB", "ORIG")
    @@ (IMG \o <<"_", "-", "4">> \o JPG_EXT)   :> File("RGB", "ORIG")

\* a sub-directory named like the first candidate, and a file named like
\* the output of source a.*
Blockers(ext) ==
    (IMG \o <<"_", "0", "0", "1">> \o ext) :> SubDir
    @@ (<<"a">> \o ext) :> File("RGB", "ORIG")

\* what the explicit output folder may hold before the call
OutputFolders(ext) ==
    {<<>>, Numbered(1, ext), Numbered(3, ext), Numbered(5, ext), OddNames,
     Blockers(ext)}

(* ------------------------------ requests ------------------------------ *)

\* '.png' if output_format == 'PNG' else '.jpg'
ExtOf(output_format) == IF output_format = "PNG" THEN PNG_EXT ELSE JPG_EXT

StartNumbers == {1, 10}

\* who calls convert_and_rename_images: the interactive command line, a
\* caller that passes a log sink, or the graphical shell's run_conversion
Callers == {"cli", "sink", "gui"}

\* the logger argument each caller passes: run_conversion passes none
LoggerGiven(caller) == caller = "sink"

\* folder_path names a folder, nothing, or a regular file; output_folder is
\* None, the input folder itself, another folder, or a regular file
Requests ==
    {r \in [folder_path : {"in", "missing", "afile"},
            output_folder : {None, "in", "out", "afile"},
            prefix : {IMG},
            start_number : StartNumbers,
            rename_files : BOOLEAN,
            overwrite_originals : BOOLEAN,
            output_format : {"PNG", "JPEG"},
            output_ext : {PNG_EXT, JPG_EXT},
            caller : Callers] :
        /\ r.output_ext = ExtOf(r.output_format)
        /\ r.rename_files \/ r.start_number = 1}

logger == LoggerGiven(req.caller)

(* ----------------------------- file system ---------------------------- *)

MkFs(inF, outF) ==
    [p \in {<<"in", x>> : x \in DOMAIN inF} \cup {<<"out", x>> : x \in DOMAIN outF}
        |-> IF p[1] = "in" THEN inF[p[2]] ELSE outF[p[2]]]

\* Path.exists() of a folder path
Exists(path) == path \in dirs \/ path = "afile"

\* Path.exists() of dir / name
FileExists(f, dir, name) == <<dir, name>> \in DOMAIN f

\* Path.iterdir() of dir
Listing(f, dir) == {p[2] : p \in {q \in DOMAIN f : q[1] = dir}}

\* write of entry e at dir / name
WriteFile(f, dir, name, e) ==
    [p \in DOMAIN f \cup {<<dir, name>>} |->
        IF p = <<dir, name>> THEN e ELSE f[p]]

\* Path.unlink() of dir / name
Unlink(f, dir, name) == [p \in DOMAIN f \ {<<dir, name>>} |-> f[p]]

(* --------------------------- log and trace ---------------------------- *)

Line(k, file, name, n) == [k |-> k, file |-> file, name |-> name, n |-> n]

\* what the call did to the outside world, in order: "attempt" (a candidate
\* name was generated for file), "write", "unlink", "input" (a read of
\* standard input)
Ev(e, file, dir, name, n, entry) ==
    [e |-> e, file |-> file, dir |-> dir, name |-> name, n |-> n,
     mode |-> entry.mode, enc |-> entry.enc]

NoEntry == [kind |-> "-", mode |-> "-", enc |-> "-"]

(* ------------------------------- Init --------------------------------- *)

Init ==
    /\ req \in Requests
    /\ \E inF \in InputFolders, outExists \in BOOLEAN :
        \E outF \in OutputFolders(req.output_ext) :
            /\ req.folder_path # "in" => inF = <<>>
            /\ req.output_folder # "out" => ~outExists
            /\ ~outExists => outF = <<>>
            /\ dirs = IF outExists THEN {"in", "out"} ELSE {"in"}
            /\ fs = MkFs(inF, outF)
    /\ pc = "start"
    /\ image_files = <<>>
    /\ idx = 1
    /\ counter = 0
    /\ converted_count = 0
    /\ renamed_count = 0
    /\ accept_all_overwrites = FALSE
    /\ retries = 0
    /\ log = <<>>
    /\ trace = <<>>
    /\ status = IF req.caller = "gui" THEN "Converting..." ELSE ""

(* ---------------------- lines 33-79: preparation ---------------------- *)

\* the folder the outputs go to
OutputPath == IF req.output_folder # None THEN req.output_folder ELSE req.folder_path

\* lines 50-53: regular files with a supported suffix, case ignored
Discover(f, dir) ==
    {x \in Listing(f, dir) :
        f[<<dir, x>>].kind = "file" /\ Lower(Suffix(x)) \in supported_formats}

\* lines 66-73: the numbers of the files already named prefix_<number>ext
ExistingNumbers(f, dir, prefix, ext) ==
    {IntParse(DropFirst(Stem(x), Len(prefix) + 1)).val :
        x \in {y \in Listing(f, dir) :
                 /\ f[<<dir, y>>].kind = "file"
                 /\ Lower(Suffix(y)) = ext
                 /\ StartsWith(y, prefix \o <<"_">>)
                 /\ IntParse(DropFirst(Stem(y), Len(prefix) + 1)).ok}}

MaxOf(S) == CHOOSE m \in S : \A n \in S : n <= m

\* lines 74-79 without the scan: the requested start whatever exists
StartCounter_IgnoreExisting(existing_numbers, start_number, rename_files) ==
    start_number

\* lines 74-79 without the comparison: always one past the highest found
StartCounter_AlwaysPastMax(existing_numbers, start_number, rename_files) ==
    IF rename_files /\ existing_numbers # {}
    THEN MaxOf(existing_numbers) + 1
    ELSE start_number

\* lines 74-79
StartCounter(existing_numbers, start_number, rename_files) ==
    IF rename_files /\ existing_numbers # {}
    THEN IF start_number <= MaxOf(existing_numbers)
         THEN MaxOf(existing_numbers) + 1
         ELSE start_number
    ELSE start_number

Resolve ==
    /\ pc = "start"
    /\ UNCHANGED <<req, fs, idx, converted_count, renamed_count,
                   accept_all_overwrites, retries, trace, status>>
    /\ IF ~Exists(req.folder_path)
       THEN \* lines 35-37
            /\ log' = Append(log, Line("no-folder", <<>>, <<>>, 0))
            /\ pc' = "returned"
            /\ UNCHANGED <<dirs, image_files, counter>>
       ELSE IF req.output_folder # None /\ req.output_folder \notin dirs
                 /\ Exists(req.output_folder)
       THEN \* line 42: mkdir(exist_ok=True) of a path that is a regular file
            /\ pc' = "raised"
            /\ UNCHANGED <<dirs, image_files, counter, log>>
       ELSE LET dirs1 == IF req.output_folder # None
                         THEN dirs \cup {req.output_folder} ELSE dirs
                found == Discover(fs, req.folder_path)
            IN /\ dirs' = dirs1
               /\ IF req.folder_path \notin dirs1
                  THEN \* line 51: iterdir() of a path that is no folder
                       /\ pc' = "raised"
                       /\ UNCHANGED <<image_files, counter, log>>
                  ELSE IF found = {}
                  THEN \* lines 55-57
                       /\ log' = Append(log, Line("none-found", <<>>, <<>>, 0))
                       /\ pc' = "returned"
                       /\ UNCHANGED <<image_files, counter>>
                  ELSE /\ log' = Append(log, Line("found", <<>>, <<>>, Cardinality(found)))
                       /\ image_files' = SortNames(found)
                       /\ counter' = StartCounter(
                              ExistingNumbers(fs, OutputPath, req.prefix, req.output_ext),
                              req.start_number, req.rename_files)
                       /\ pc' = "loop"

(* --------------------- lines 85-162: one file ------------------------- *)

\* lines 88-93 numbering every file with the requested start
NewFilename_FixedNumber(file, n) ==
    IF req.rename_files
    THEN req.prefix \o <<"_">> \o Format03d(req.start_number) \o req.output_ext
    ELSE Stem(file) \o req.output_ext

\* lines 88-93
NewFilename(file, n) ==
    IF req.rename_files
    THEN req.prefix \o <<"_">> \o Format03d(n) \o req.output_ext
    ELSE Stem(file) \o req.output_ext

\* lines 158-162 without the counter += 1 of line 161
Failed_NoAdvance(file, why) ==
    /\ log' = Append(log, Line("error", file, why, 0))
    /\ counter' = counter
    /\ idx' = idx + 1
    /\ retries' = 0
    /\ pc' = "loop"

\* lines 158-162: the except clause of the loop body
Failed(file, why) ==
    /\ log' = Append(log, Line("error", file, why, 0))
    /\ counter' = IF req.rename_files THEN counter + 1 ELSE counter
    /\ idx' = idx + 1
    /\ retries' = 0
    /\ pc' = "loop"

\* lines 87-122 up to the prompt: the candidate name and the conflict check
BeginFile ==
    /\ pc = "loop"
    /\ idx <= Len(image_files)
    /\ LET file == image_files[idx]
           new_filename == NewFilename(file, counter)
       IN /\ trace' = Append(trace,
                 Ev("attempt", file, OutputPath, new_filename, counter, NoEntry))
          /\ UNCHANGED <<req, dirs, fs, image_files, converted_count,
                         renamed_count, accept_all_overwrites, retries, status>>
          /\ IF FileExists(fs, OutputPath, new_filename) /\ ~req.overwrite_originals
             THEN IF req.rename_files
                  THEN \* lines 99-102
                       /\ log' = Append(log, Line("skip-exists", file, new_filename, 0))
                       /\ counter' = counter + 1
                       /\ idx' = idx + 1
                       /\ pc' = "loop"
                  ELSE IF accept_all_overwrites
                  THEN /\ pc' = "convert"
                       /\ UNCHANGED <<log, counter, idx>>
                  ELSE IF logger
                  THEN \* lines 107-109, 119-120
                       /\ log' = Append(log, Line("skip-gui", file, new_filename, 0))
                       /\ idx' = idx + 1
                       /\ pc' = "loop"
                       /\ UNCHANGED counter
                  ELSE /\ pc' = "prompt"
                       /\ UNCHANGED <<log, counter, idx>>
             ELSE /\ pc' = "convert"
                  /\ UNCHANGED <<log, counter, idx>>

\* what may come from standard input, after strip().lower(); "EOF" is the
\* end of input, where input() raises EOFError
Answers == {"y", "yes", "", "n", "no", "a", "q", "EOF"}

\* lines 105-122: one input() of the overwrite prompt
Prompt ==
    /\ pc = "prompt"
    /\ LET file == image_files[idx]
           new_filename == NewFilename(file, counter)
       IN \E resp \in Answers :
          /\ trace' = Append(trace,
                 Ev("input", file, OutputPath, new_filename, counter, NoEntry))
          /\ UNCHANGED <<req, dirs, fs, image_files, converted_count,
                         renamed_count, status>>
          /\ IF resp = "EOF"
             THEN /\ Failed(file, <<"E", "O", "F">>)
                  /\ UNCHANGED accept_all_overwrites
             ELSE IF resp \in {"y", "yes", ""}
             THEN /\ pc' = "convert"
                  /\ retries' = 0
                  /\ UNCHANGED <<log, counter, idx, accept_all_overwrites>>
             ELSE IF resp \in {"n", "no"}
             THEN /\ log' = Append(log, Line("skip-declined", file, <<>>, 0))
                  /\ idx' = idx + 1
                  /\ pc' = "loop"
                  /\ retries' = 0
                  /\ UNCHANGED <<counter, accept_all_overwrites>>
             ELSE IF resp = "a"
             THEN /\ accept_all_overwrites' = TRUE
                  /\ pc' = "convert"
                  /\ retries' = 0
                  /\ UNCHANGED <<log, counter, idx>>
             ELSE \* any other answer: the while loop asks again
                  /\ retries < MaxRetries
                  /\ retries' = retries + 1
                  /\ pc' = "prompt"
                  /\ UNCHANGED <<log, counter, idx, accept_all_overwrites>>

\* lines 127-136: the pixel mode after the JPEG flattening
Flatten(output_format, mode) ==
    IF output_format = "JPEG"
    THEN IF mode \in {"RGBA", "LA", "P"} THEN "RGB"
         ELSE IF mode # "RGB" THEN "RGB" ELSE mode
    ELSE mode

\* line 139: the format name passed to img.save
SaveFormat(output_format) == "JPEG"

\* the pixel modes Pillow's encoder of a format writes; any other raises
CanEncode(enc, mode) ==
    enc = "JPEG" => mode \in {"1", "L", "RGB", "CMYK"}

\* line 143 without .lower()
IsWebp_CaseSensitive(file) == Suffix(file) = WEBP_EXT

\* line 143
IsWebp(file) == Lower(Suffix(file)) = WEBP_EXT

\* line 149 without the overwrite_originals test
ShouldDelete_Unconditional(file, new_filename) ==
    req.output_folder # None \/ file # new_filename

\* line 149
ShouldDelete(file, new_filename) ==
    req.overwrite_originals
        /\ (req.output_folder # None \/ file # new_filename)

\* lines 124-156: open, flatten, save, tally, delete the original
Convert ==
    /\ pc = "convert"
    /\ UNCHANGED <<req, dirs, image_files, accept_all_overwrites, status>>
    /\ LET file == image_files[idx]
           new_filename == NewFilename(file, counter)
           src  == <<req.folder_path, file>>
           dst  == <<OutputPath, new_filename>>
           enc  == SaveFormat(req.output_format)
       IN IF src \notin DOMAIN fs \/ fs[src].mode = "corrupt"
          THEN \* Image.open raises
               /\ Failed(file, <<"o", "p", "e", "n">>)
               /\ UNCHANGED <<fs, converted_count, renamed_count, trace>>
          ELSE LET mode == Flatten(req.output_format, fs[src].mode)
                   out  == File(mode, enc)
                   fs1  == WriteFile(fs, dst[1], dst[2], out)
               IN IF ~CanEncode(enc, mode)
                     \/ (dst \in DOMAIN fs /\ fs[dst].kind = "dir")
                  THEN \* img.save raises
                       /\ Failed(file, <<"s", "a", "v", "e">>)
                       /\ UNCHANGED <<fs, converted_count, renamed_count, trace>>
                  ELSE /\ converted_count' =
                            IF IsWebp(file) THEN converted_count + 1 ELSE converted_count
                       /\ renamed_count' =
                            IF IsWebp(file) THEN renamed_count ELSE renamed_count + 1
                       /\ counter' = IF req.rename_files THEN counter + 1 ELSE counter
                       /\ idx' = idx + 1
                       /\ retries' = 0
                       /\ pc' = "loop"
                       /\ LET wrote == Append(trace,
                                  Ev("write", file, dst[1], dst[2], counter, out))
                              said  == Append(log, Line("converted", file, new_filename, 0))
                          IN IF ShouldDelete(file, new_filename)
                             THEN \E unlinked \in BOOLEAN :
                                  IF unlinked
                                  THEN /\ fs' = Unlink(fs1, src[1], src[2])
                                       /\ trace' = Append(wrote,
                                              Ev("unlink", file, src[1], src[2], counter, NoEntry))
                                       /\ log' = said
                                  ELSE \* lines 152-153
                                       /\ fs' = fs1
                                       /\ trace' = wrote
                                       /\ log' = Append(said, Line("warning", file, <<>>, 0))
                             ELSE /\ fs' = fs1
                                  /\ trace' = wrote
                                  /\ log' = said

\* lines 164-167
Summary ==
    /\ pc = "loop"
    /\ idx > Len(image_files)
    /\ log' = log \o <<Line("complete", <<>>, <<>>, 0),
                       Line("converted-count", <<>>, <<>>, converted_count),
                       Line("renamed-count", <<>>, <<>>, renamed_count),
                       Line("total", <<>>, <<>>, converted_count + renamed_count)>>
    /\ pc' = "returned"
    /\ UNCHANGED <<req, dirs, fs, image_files, idx, counter, converted_count,
                   renamed_count, accept_all_overwrites, retries, trace, status>>

\* webp_jpeg_gui.py lines 12-26: run_conversion after the call
RunConversionEnd ==
    /\ req.caller = "gui"
    /\ pc \in {"returned", "raised"}
    /\ status' = IF pc = "returned" THEN "Conversion complete!" ELSE "Error"
    /\ pc' = "gui-done"
    /\ UNCHANGED <<req, dirs, fs, image_files, idx, counter, converted_count,
                   renamed_count, accept_all_overwrites, retries, log, trace>>

Next == Resolve \/ BeginFile \/ Prompt \/ Convert \/ Summary \/ RunConversionEnd

Spec == Init /\ [][Next]_vars

(* ======================= properties of the engine ===================== *)

IsAttempt(ev) == ev.e = "attempt"
Attempts == SelectSeq(trace, IsAttempt)
WriteIdx == {i \in 1..Len(trace) : trace[i].e = "write"}
LogKinds == {log[j].k : j \in 1..Len(log)}
IMG_N(n) == IMG \o <<"_">> \o Format03d(n) \o PNG_EXT

(* ------------------------------- C1 ----------------------------------- *)
\* C1: every saved file is encoded in the request's output format, and with
\* PNG output a source with an alpha channel is saved unflattened and
\* without a per-file error.
C1_SavedInRequestFormat ==
    /\ \A i \in WriteIdx : trace[i].enc = req.output_format
    /\ req.output_format = "PNG" =>
          /\ \A i \in WriteIdx :
                <<req.folder_path, trace[i].file>> \in DOMAIN fs
                  /\ trace[i].dir # req.folder_path
                  => trace[i].mode = fs[<<req.folder_path, trace[i].file>>].mode
          /\ \A j \in 1..Len(log) :
                log[j].k = "error" /\ <<req.folder_path, log[j].file>> \in DOMAIN fs
                  => fs[<<req.folder_path, log[j].file>>].mode # "RGBA"

(* ------------------------------- C2 ----------------------------------- *)
\* the batch of the scenario: renaming, prefix img, start 1, originals kept,
\* two supported source files, and img_001.png a regular file of the output
\* folder that this call did not write and that is the only img_ entry this
\* call did not write
C2_Scenario ==
    /\ req.rename_files /\ req.prefix = IMG /\ req.start_number = 1
    /\ ~req.overwrite_originals /\ req.output_ext = PNG_EXT
    /\ Len(image_files) = 2
    /\ FileExists(fs, OutputPath, IMG_001_PNG)
    /\ fs[<<OutputPath, IMG_001_PNG>>].kind = "file"
    /\ \A i \in WriteIdx : trace[i].name # IMG_001_PNG
    /\ \A x \in Listing(fs, OutputPath) :
          StartsWith(x, IMG \o <<"_">>) /\ x # IMG_001_PNG
            => \E i \in WriteIdx : trace[i].name = x

\* C2 as stated: the first source file is skipped with a skip line, the
\* counter goes on to 2 and the second source file gets img_002.png.
C2_ConflictSkip ==
    C2_Scenario /\ pc = "returned" =>
        /\ \E j \in 1..Len(log) :
              log[j] = Line("skip-exists", image_files[1], IMG_001_PNG, 0)
        /\ \A i \in WriteIdx : trace[i].file # image_files[1]
        /\ Len(Attempts) = 2
        /\ Attempts[2].file = image_files[2]
        /\ Attempts[2].name = IMG_N(2)

\* C2 amended: the start inference counts img_001.png, so numbering starts
\* at 2: nothing is skipped, the first source file gets img_002.png, the
\* second img_003.png, and img_001.png is left as it was.
C2_NumberingStartsPastExisting ==
    C2_Scenario /\ pc = "returned" =>
        /\ "skip-exists" \notin LogKinds
        /\ Len(Attempts) = 2
        /\ Attempts[1].file = image_files[1] /\ Attempts[1].name = IMG_N(2)
        /\ Attempts[2].file = image_files[2] /\ Attempts[2].name = IMG_N(3)
        /\ fs[<<OutputPath, IMG_001_PNG>>].enc = "ORIG"
        /\ counter = 4

C2_Witness ==
    /\ C2_Scenario /\ pc = "returned"
    /\ req.output_folder = "out"
    /\ {trace[i].name : i \in WriteIdx} = {IMG_N(2), IMG_N(3)}

(* ------------------------------- C3 ----------------------------------- *)
\* the integers n for which the output folder holds a regular file named
\* <prefix>_<numeral of n><outputExt>, the extension compared without case
C3_Found ==
    {IntParse(SubSeq(x, Len(req.prefix) + 2, Len(x) - Len(req.output_ext))).val :
        x \in {y \in Listing(fs, OutputPath) :
                 /\ fs[<<OutputPath, y>>].kind = "file"
                 /\ Len(y) >= Len(req.prefix) + 1 + Len(req.output_ext)
                 /\ SubSeq(y, 1, Len(req.prefix) + 1) = req.prefix \o <<"_">>
                 /\ Lower(SubSeq(y, Len(y) - Len(req.output_ext) + 1, Len(y)))
                        = req.output_ext
                 /\ IntParse(SubSeq(y, Len(req.prefix) + 2,
                                    Len(y) - Len(req.output_ext))).ok}}

C3_Expected ==
    IF C3_Found = {} THEN req.start_number
    ELSE IF req.start_number >= MaxOf(C3_Found) + 1 THEN req.start_number
    ELSE MaxOf(C3_Found) + 1

\* C3: with renaming, the first processed file gets requestedStart when no
\* file is named <prefix>_<integer><ext>, else max(requestedStart,
\* maxFound + 1); 001..005 with start 1 gives 006, up to 003 with start 10
\* gives 10.  (Read while the folder is still as the call found it.)
C3_StartNumber ==
    req.rename_files /\ trace # <<>> /\ WriteIdx = {} =>
        /\ trace[1].e = "attempt"
        /\ trace[1].n = C3_Expected
        /\ trace[1].name =
              req.prefix \o <<"_">> \o Format03d(C3_Expected) \o req.output_ext
        /\ C3_Found = 1..5 /\ req.start_number = 1
              => trace[1].name = IMG \o <<"_", "0", "0", "6">> \o req.output_ext
        /\ C3_Found = 1..3 /\ req.start_number = 10
              => trace[1].name = IMG \o <<"_", "0", "1", "0">> \o req.output_ext

C3_Witness ==
    /\ req.rename_files /\ Len(trace) = 1 /\ C3_Found = 1..3
    /\ req.start_number = 10 /\ trace[1].n = 10

(* ------------------------------- C4 ----------------------------------- *)
\* C4: with renaming, every discovered file is attempted and the counter
\* goes up by exactly 1 per file whatever its outcome, so it ends at its
\* starting value + N and no number is given twice.
C4_SequenceMonotonic ==
    req.rename_files =>
        /\ \A i \in 1..Len(Attempts) :
              /\ Attempts[i].file = image_files[i]
              /\ Attempts[i].n = Attempts[1].n + (i - 1)
        /\ \A i, j \in 1..Len(Attempts) :
              i # j => Attempts[i].name # Attempts[j].name
        /\ pc \in {"loop", "prompt", "convert"} /\ Attempts # <<>>
              => counter = Attempts[1].n + (idx - 1)
        /\ pc = "loop" => Len(Attempts) = idx - 1
        /\ pc = "returned" /\ image_files # <<>> =>
              /\ Len(Attempts) = Len(image_files)
              /\ counter = Attempts[1].n + Len(image_files)

C4_Witness ==
    /\ req.rename_files /\ pc = "returned" /\ Len(image_files) = 2
    /\ "skip-exists" \in LogKinds /\ "error" \in LogKinds
    /\ counter = Attempts[1].n + 2

(* ------------------------------- C5 ----------------------------------- *)
\* C5: convert_and_rename_images never propagates an error to its caller.
C5_NeverRaises == pc # "raised"

(* ------------------------------- C6 ----------------------------------- *)
\* C6: with the delete-originals flag set, after a file is processed the
\* file at its output path still exists.
C6_OutputSurvives ==
    req.overwrite_originals /\ pc = "loop" /\ idx > 1 =>
        \A i \in WriteIdx :
            trace[i].file = image_files[idx - 1]
              => FileExists(fs, trace[i].dir, trace[i].name)

(* ------------------------------- C7 ----------------------------------- *)
\* C7: when overwriteOriginals is False no source file is deleted.
C7_NonDestructive ==
    ~req.overwrite_originals =>
        /\ \A i \in 1..Len(image_files) :
              FileExists(fs, req.folder_path, image_files[i])
        /\ \A i \in 1..Len(trace) : trace[i].e # "unlink"

C7_Witness ==
    /\ ~req.overwrite_originals /\ pc = "returned"
    /\ Cardinality(WriteIdx) = 2
    /\ req.output_folder = "in"

(* ------------------------------- C8 ----------------------------------- *)
\* C8: for a caller with a log sink and for run_conversion, with renaming
\* off and originals kept, a conflict is resolved without reading standard
\* input.
C8_NoPromptWhenNonInteractive ==
    req.caller \in {"sink", "gui"} /\ ~req.rename_files /\ ~req.overwrite_originals
        => /\ pc # "prompt"
           /\ \A i \in 1..Len(trace) : trace[i].e # "input"

(* ------------------------------- C9 ----------------------------------- *)
C9_SavedWebp ==
    {i \in WriteIdx : Lower(Suffix(trace[i].file)) = WEBP_EXT}

\* the folder of the example, converted in place
C9_Example ==
    /\ image_files = <<A_WEBP, B_PNG>>
    /\ FileExists(fs, req.folder_path, NOTES_TXT)
    /\ req.rename_files /\ req.prefix = IMG /\ req.start_number = 1
    /\ req.output_format = "PNG" /\ req.output_folder = None
    /\ ~req.overwrite_originals

C10_NoSharedOutputPath ==
    \A i, j \in WriteIdx :
        i < j => <<trace[i].dir, trace[i].name>> # <<trace[j].dir, trace[j].name>>

\* C10 amended: an output written for one source file is overwritten by a
\* later source file's output only with renaming off and only when the
\* overwrite was permitted: the delete-originals flag is set, or no log
\* sink was given and the prompt was answered yes for that file or "all"
\* before it.
C10_OverwriteOnlyWhenPermitted ==
    \A i, j \in WriteIdx :
        i < j /\ <<trace[i].dir, trace[i].name>> = <<trace[j].dir, trace[j].name>>
          => /\ ~req.rename_files
             /\ \/ req.overwrite_originals
                \/ /\ ~logger
                   /\ \/ accept_all_overwrites
                      \/ \E k \in 1..Len(trace) :
                            trace[k].e = "input" /\ trace[k].file = trace[j].file

C10_Witness ==
    /\ ~req.overwrite_originals
    /\ \E i, j \in WriteIdx :
          i < j /\ <<trace[i].dir, trace[i].name>> = <<trace[j].dir, trace[j].name>>

====
